---- MODULE Spec2Model ----
(***************************************************************************)
(* A model of the Google Maps MCP server: the adapter class GoogleMapsTools *)
(* (src/mcp_google_maps/maps_tools.py) and the tool gateway (src/server.py).*)
(*                                                                         *)
(* Python values are modelled as follows.                                  *)
(*   - a str that the code inspects (the coordinate string) is a sequence  *)
(*     of one-character strings; a str that is only passed through is a    *)
(*     TLA+ string;                                                        *)
(*   - Optional[T] is a sequence: None is <<>>, a value v is <<v>>;        *)
(*   - a dict is a function whose DOMAIN is the set of keys present;       *)
(*   - a float read from text is an exact decimal [num, den];              *)
(*   - the result of a call is Return(v) or Raise(exc, msg), msg being the *)
(*     chain of message parts that the f-strings of the handlers build.    *)
(* The provider (googlemaps.Client) is outside the repository: each of its *)
(* calls either raises or returns a body, chosen by the environment.       *)
(***************************************************************************)
EXTENDS Integers, Sequences, FiniteSets, TLC

VARIABLES
    maps_tools,      \* server.py: the global adapter handle
    main_pc,         \* position of main()
    env_key,         \* os.getenv('GOOGLE_MAPS_API_KEY') ("" when unset)
    stdout,          \* what main() has printed
    tool,            \* the handler of the last invocation
    input,           \* its input object
    provider_calls,  \* requests it issued: [op, api, params, answer]
    outcome,         \* how it ended
    inflight         \* the invocations the host runs side by side, by worker

vars == <<maps_tools, main_pc, env_key, stdout, tool, input, provider_calls, outcome, inflight>>

\* What no tool invocation, run on its own, writes.
server == <<maps_tools, main_pc, env_key, stdout, inflight>>

----------------------------------------------------------------------------
(* Bounds of the model *)

MaxLen == 5        \* longest coordinate string
MaxPlaces == 2     \* most places in a nearby-search body
MaxRating == 2     \* ratings are 0..MaxRating
MaxOrigins == 2    \* most origins of a distance matrix
MaxDests == 2      \* most destinations of a distance matrix
MaxRoutes == 2     \* most routes in a directions body
MaxLegs == 2       \* most legs of a route
MaxPoints == 2     \* most points of an elevation request
MaxWorkers == 2    \* most invocations in flight at once

----------------------------------------------------------------------------
(* Python values *)

None == <<>>
Some(v) == <<v>>

Return(v) == [kind |-> "return", value |-> v]
Raise(e, m) == [kind |-> "raise", exc |-> e, msg |-> m]
NotRun == [kind |-> "none"]

Raised(r) == r.kind = "raise"
Returned(r) == r.kind = "return"

\* Classes that `except Exception` catches (all the failures that the
\* adapter, the resolver, the provider client and the reshaping raise).
ExceptionSubclasses ==
    {"ValueError", "KeyError", "IndexError", "TypeError", "AttributeError",
     "RuntimeError", "ApiError", "TransportError", "Timeout"}

\* What the provider client raises.
ProviderExceptions == {"ApiError", "TransportError"}

\* str(e) of an exception of the provider client.
ProviderMessage(e) == <<e>>

\* f"{prefix}: {str(e)}"
Wrap(prefix, r) == <<prefix>> \o r.msg

Call(op, api, params, answer) ==
    [op |-> op, api |-> api, params |-> params, answer |-> answer]

ProviderRaise(e) == [raises |-> TRUE, exc |-> e]
ProviderBody(b) == [raises |-> FALSE, body |-> b]

----------------------------------------------------------------------------
(* str.split, str.strip and float, as parse_coordinates uses them *)

Whitespace == {" "}
Digit == {"0", "1", "2", "3", "4", "5", "6", "7", "8", "9"}
DigitValue(c) ==
    CASE c = "0" -> 0 [] c = "1" -> 1 [] c = "2" -> 2 [] c = "3" -> 3
      [] c = "4" -> 4 [] c = "5" -> 5 [] c = "6" -> 6 [] c = "7" -> 7
      [] c = "8" -> 8 [] c = "9" -> 9

RECURSIVE split(_, _)
split(s, sep) ==
    IF \E i \in 1..Len(s) : s[i] = sep
    THEN LET i == CHOOSE k \in 1..Len(s) :
                      s[k] = sep /\ \A j \in 1..(k - 1) : s[j] # sep
         IN  <<SubSeq(s, 1, i - 1)>> \o split(SubSeq(s, i + 1, Len(s)), sep)
    ELSE <<s>>

RECURSIVE lstrip(_)
lstrip(s) == IF s # <<>> /\ Head(s) \in Whitespace THEN lstrip(Tail(s)) ELSE s

RECURSIVE rstrip(_)
rstrip(s) ==
    IF s # <<>> /\ s[Len(s)] \in Whitespace
    THEN rstrip(SubSeq(s, 1, Len(s) - 1))
    ELSE s

strip(s) == rstrip(lstrip(s))

RECURSIVE Pow10(_)
Pow10(n) == IF n = 0 THEN 1 ELSE 10 * Pow10(n - 1)

RECURSIVE DigitsValue(_)
DigitsValue(ds) ==
    IF ds = <<>> THEN 0
    ELSE 10 * DigitsValue(SubSeq(ds, 1, Len(ds) - 1)) + DigitValue(ds[Len(ds)])

\* The exact decimal num/den, den a power of ten, in lowest such form.
RECURSIVE Decimal(_, _)
Decimal(num, den) ==
    IF den > 1 /\ num % 10 = 0 THEN Decimal(num \div 10, den \div 10)
    ELSE [num |-> num, den |-> den]

\* float(text): optional surrounding whitespace, optional sign, then
\* digits with at most one point and at least one digit.
float(text) ==
    LET t == strip(text)
        signed == t # <<>> /\ t[1] \in {"-", "+"}
        body == IF signed THEN Tail(t) ELSE t
        points == {i \in 1..Len(body) : body[i] = "."}
        p == IF points = {} THEN Len(body) + 1 ELSE CHOOSE i \in points : TRUE
        whole == SubSeq(body, 1, p - 1)
        frac == SubSeq(body, p + 1, Len(body))
        wellFormed ==
            /\ Cardinality(points) <= 1
            /\ \A i \in 1..Len(whole) : whole[i] \in Digit
            /\ \A i \in 1..Len(frac) : frac[i] \in Digit
            /\ Len(whole) + Len(frac) >= 1
        magnitude == DigitsValue(whole \o frac)
    IN  IF wellFormed
        THEN Return(Decimal(IF signed /\ t[1] = "-" THEN 0 - magnitude
                            ELSE magnitude, Pow10(Len(frac))))
        ELSE Raise("ValueError", <<"could not convert string to float">>)

----------------------------------------------------------------------------
(* GoogleMapsTools *)

NoneTools == [cls |-> "NoneType"]

DefaultLanguage == "zh-TW"

\* A constructor that accepts a missing key (the check of line 44 left out).
GoogleMapsTools_init_nokey(key) ==
    Return([cls |-> "GoogleMapsTools", api_key |-> key,
            default_language |-> DefaultLanguage])

\* GoogleMapsTools(): api_key and language are the defaults, so the key is
\* the environment's.
GoogleMapsTools_init(key) ==
    IF key = ""
    THEN Raise("ValueError", <<"Google Maps API Key is required">>)
    ELSE Return([cls |-> "GoogleMapsTools", api_key |-> key,
                 default_language |-> DefaultLanguage])

\* What an adapter operation hands back: its result and the provider
\* requests it issued.
Done(result, calls) == [result |-> result, calls |-> calls]

\* The list comprehension of parse_coordinates: float(c.strip()) for each
\* token, stopping at the first token that float rejects.
RECURSIVE FloatAll(_)
FloatAll(tokens) ==
    IF tokens = <<>> THEN Return(<<>>)
    ELSE LET first == float(strip(Head(tokens)))
         IN  IF Raised(first) THEN first
             ELSE LET rest == FloatAll(Tail(tokens))
                  IN  IF Raised(rest) THEN rest
                      ELSE Return(<<first.value>> \o rest.value)

parse_coordinates_nolen(coord_string) ==
    LET coords == FloatAll(split(coord_string, ","))
    IN  IF Raised(coords) \/ Len(coords.value) < 2
        THEN Raise("ValueError", <<"Invalid coorindate format">>)
        ELSE Return([lat |-> coords.value[1], lng |-> coords.value[2]])

parse_coordinates(coord_string) ==
    LET coords == FloatAll(split(coord_string, ","))
    IN  IF Raised(coords) THEN Raise("ValueError", <<"Invalid coorindate format">>)
        ELSE IF Len(coords.value) # 2
             THEN Raise("ValueError", <<"Invalid coorindate format">>)
             ELSE Return([lat |-> coords.value[1], lng |-> coords.value[2]])

\* A result of the provider's geocoder.
Coord(a, b) == [lat |-> [num |-> a, den |-> 1], lng |-> [num |-> b, den |-> 1]]
GeocodeResult(a, b, keys) ==
    [k \in {"geometry"} \cup keys |->
        CASE k = "geometry" -> [location |-> Coord(a, b)]
          [] k = "formatted_address" -> "addr"
          [] k = "place_id" -> "pid"]

GeocodeBodies ==
    {<<>>,
     <<GeocodeResult(37, -122, {"formatted_address", "place_id"})>>,
     <<GeocodeResult(51, 5, {})>>,
     <<GeocodeResult(37, -122, {"formatted_address", "place_id"}),
       GeocodeResult(51, 5, {"place_id"})>>}

GeocodeAnswers ==
    {ProviderRaise(e) : e \in ProviderExceptions}
        \cup {ProviderBody(b) : b \in GeocodeBodies}

\* dict.get(key, default)
Get(d, key, default) == IF key \in DOMAIN d THEN d[key] ELSE default

geocode_address_retry(self, address, answer) ==
    LET request == Call("geocode_address", "geocode",
                        [address |-> address, language |-> self.default_language],
                        answer)
    IN  IF answer.raises
        THEN Done(Raise("ValueError",
                        <<"Error geocoding address">> \o ProviderMessage(answer.exc)),
                  <<request, request>>)
        ELSE IF answer.body = <<>>
        THEN Done(Raise("ValueError", <<"Error geocoding address", "Address not found">>),
                  <<request>>)
        ELSE Done(Return([lat |-> answer.body[1].geometry.location.lat,
                          lng |-> answer.body[1].geometry.location.lng,
                          formatted_address |-> Get(answer.body[1], "formatted_address", ""),
                          place_id |-> Get(answer.body[1], "place_id", "")]),
                  <<request>>)

geocode_address_empty_ok(self, address, answer) ==
    LET request == Call("geocode_address", "geocode",
                        [address |-> address, language |-> self.default_language],
                        answer)
    IN  IF answer.raises
        THEN Done(Raise("ValueError",
                        <<"Error geocoding address">> \o ProviderMessage(answer.exc)),
                  <<request>>)
        ELSE IF answer.body = <<>>
        THEN Done(Return([lat |-> [num |-> 0, den |-> 1], lng |-> [num |-> 0, den |-> 1],
                          formatted_address |-> "", place_id |-> ""]),
                  <<request>>)
        ELSE Done(Return([lat |-> answer.body[1].geometry.location.lat,
                          lng |-> answer.body[1].geometry.location.lng,
                          formatted_address |-> Get(answer.body[1], "formatted_address", ""),
                          place_id |-> Get(answer.body[1], "place_id", "")]),
                  <<request>>)

\* geocode_address keeping the two coordinates only.
geocode_address_trimmed(self, address, answer) ==
    LET request == Call("geocode_address", "geocode",
                        [address |-> address, language |-> self.default_language],
                        answer)
    IN  IF answer.raises
        THEN Done(Raise("ValueError",
                        <<"Error geocoding address">> \o ProviderMessage(answer.exc)),
                  <<request>>)
        ELSE IF answer.body = <<>>
        THEN Done(Raise("ValueError", <<"Error geocoding address", "Address not found">>),
                  <<request>>)
        ELSE Done(Return([lat |-> answer.body[1].geometry.location.lat,
                          lng |-> answer.body[1].geometry.location.lng]),
                  <<request>>)

\* One client.geocode request; an empty list and a provider failure both
\* end in ValueError("Error geocoding address: ...").
geocode_address(self, address, answer) ==
    LET request == Call("geocode_address", "geocode",
                        [address |-> address, language |-> self.default_language],
                        answer)
    IN  IF answer.raises
        THEN Done(Raise("ValueError",
                        <<"Error geocoding address">> \o ProviderMessage(answer.exc)),
                  <<request>>)
        ELSE IF answer.body = <<>>
        THEN Done(Raise("ValueError", <<"Error geocoding address", "Address not found">>),
                  <<request>>)
        ELSE Done(Return([lat |-> answer.body[1].geometry.location.lat,
                          lng |-> answer.body[1].geometry.location.lng,
                          formatted_address |-> Get(answer.body[1], "formatted_address", ""),
                          place_id |-> Get(answer.body[1], "place_id", "")]),
                  <<request>>)

get_location_sniff(self, center, answer) ==
    IF "value" \notin DOMAIN center
    THEN Done(Raise("KeyError", <<"'value'">>), <<>>)
    ELSE IF Get(center, "isCoordinates", FALSE) \/ Returned(parse_coordinates(center.value))
    THEN Done(parse_coordinates(center.value), <<>>)
    ELSE geocode_address(self, center.value, answer)

\* center.get("isCoordinates", False) chooses the parser or the geocoder;
\* center["value"] raises KeyError when the key is missing.
get_location(self, center, answer) ==
    IF Get(center, "isCoordinates", FALSE)
    THEN IF "value" \in DOMAIN center
         THEN Done(parse_coordinates(center.value), <<>>)
         ELSE Done(Raise("KeyError", <<"'value'">>), <<>>)
    ELSE IF "value" \in DOMAIN center
         THEN geocode_address(self, center.value, answer)
         ELSE Done(Raise("KeyError", <<"'value'">>), <<>>)

----------------------------------------------------------------------------
(* The resolver on its own: get_location on every descriptor whose value  *)
(* is a string of at most MaxLen characters.                               *)

Alphabet == {"7", ".", "-", ",", " "}

Strings == UNION {[1..n -> Alphabet] : n \in 0..MaxLen}

Descriptors ==
    {[value |-> s, isCoordinates |-> b] : s \in Strings, b \in BOOLEAN}
        \cup {[value |-> s] : s \in Strings}

TheTools == GoogleMapsTools_init("key").value

\* No invocation is in progress: the last one has handed its result back.
Idle == tool = "none"

\* The workers of the host (thread pool or event loop), none of them busy.
Workers == 1..MaxWorkers
NoneInFlight == [w \in Workers |-> [pc |-> "idle"]]

\* The invocation's result has been handed to the caller; nothing of it is
\* kept (there is no state across calls but the adapter handle).
Finish ==
    /\ ~Idle
    /\ tool' = "none"
    /\ input' = <<>>
    /\ provider_calls' = <<>>
    /\ outcome' = NotRun
    /\ UNCHANGED server

InitResolve ==
    /\ maps_tools = TheTools
    /\ main_pc = "serving"
    /\ env_key = "key"
    /\ stdout = <<>>
    /\ tool = "none"
    /\ input = <<>>
    /\ provider_calls = <<>>
    /\ outcome = NotRun
    /\ inflight = NoneInFlight

\* get_location(center) with a literal coordinate pair: no provider answer
\* is consulted.
ResolveCoordinates ==
    /\ Idle
    /\ \E center \in Descriptors :
        /\ Get(center, "isCoordinates", FALSE)
        /\ LET r == get_location(maps_tools, center, ProviderBody(<<>>))
           IN  /\ tool' = "get_location"
               /\ input' = center
               /\ provider_calls' = r.calls
               /\ outcome' = r.result
        /\ UNCHANGED server

\* get_location(center) with free text: the provider answers the geocode
\* request.
ResolveAddress ==
    /\ Idle
    /\ \E center \in Descriptors, answer \in GeocodeAnswers :
        /\ ~Get(center, "isCoordinates", FALSE)
        /\ LET r == get_location(maps_tools, center, answer)
           IN  /\ tool' = "get_location"
               /\ input' = center
               /\ provider_calls' = r.calls
               /\ outcome' = r.result
        /\ UNCHANGED server

NextResolve == ResolveCoordinates \/ ResolveAddress \/ Finish

SpecResolve == InitResolve /\ [][NextResolve]_vars

----------------------------------------------------------------------------
(* Properties of the resolver *)

\* The text of a token without its surrounding whitespace.
Trimmed(t) ==
    LET inked == {i \in 1..Len(t) : t[i] \notin Whitespace}
    IN  IF inked = {} THEN <<>>
        ELSE SubSeq(t, CHOOSE i \in inked : \A j \in inked : i <= j,
                       CHOOSE i \in inked : \A j \in inked : j <= i)

\* A decimal numeral: an optional sign, digits and at most one point, at
\* least one digit.
IsNumeral(c) ==
    LET from == IF c # <<>> /\ c[1] \in {"-", "+"} THEN 2 ELSE 1
    IN  /\ \A i \in from..Len(c) : c[i] \in Digit \cup {"."}
        /\ Cardinality({i \in from..Len(c) : c[i] = "."}) <= 1
        /\ \E i \in from..Len(c) : c[i] \in Digit

\* The position of the numeral's point (past its end when it has none) and
\* the number of digits after it.
PointOf(c) ==
    LET points == {i \in 1..Len(c) : c[i] = "."}
    IN  IF points = {} THEN Len(c) + 1 ELSE CHOOSE i \in points : TRUE

FractionDigits(c) == IF PointOf(c) > Len(c) THEN 0 ELSE Len(c) - PointOf(c)

\* The number a numeral denotes, in units of 10^-FractionDigits, digit by
\* digit from position i on.
RECURSIVE PlaceValues(_, _)
PlaceValues(c, i) ==
    IF i > Len(c) THEN 0
    ELSE PlaceValues(c, i + 1)
         + (IF c[i] \notin Digit THEN 0
            ELSE IF i < PointOf(c)
                 THEN DigitValue(c[i]) * Pow10(FractionDigits(c) + PointOf(c) - 1 - i)
                 ELSE DigitValue(c[i]) * Pow10(FractionDigits(c) - (i - PointOf(c))))

NumeralValue(c) ==
    IF c[1] = "-" THEN 0 - PlaceValues(c, 1) ELSE PlaceValues(c, 1)

\* The float x is the number that the numeral c denotes.
Denotes(x, c) == x.num * Pow10(FractionDigits(c)) = NumeralValue(c) * x.den

Commas(s) == {i \in 1..Len(s) : s[i] = ","}
FirstToken(s) == Trimmed(SubSeq(s, 1, (CHOOSE i \in Commas(s) : TRUE) - 1))
SecondToken(s) == Trimmed(SubSeq(s, (CHOOSE i \in Commas(s) : TRUE) + 1, Len(s)))

TwoNumericTokens(s) ==
    /\ Cardinality(Commas(s)) = 1
    /\ IsNumeral(FirstToken(s))
    /\ IsNumeral(SecondToken(s))

ResolvedLiteral ==
    /\ tool = "get_location"
    /\ "value" \in DOMAIN input
    /\ Get(input, "isCoordinates", FALSE)

ResolvedFreeText ==
    /\ tool = "get_location"
    /\ "value" \in DOMAIN input
    /\ ~Get(input, "isCoordinates", FALSE)

\* C7: with isCoordinates true, a value of exactly two numeric
\* comma-separated tokens (whitespace trimmed) resolves to the Coordinate
\* of exactly those two numbers; any other value fails with the
\* invalid-input ValueError; no provider request is issued either way.
C7_LiteralCoordinates ==
    ResolvedLiteral =>
        /\ provider_calls = <<>>
        /\ IF TwoNumericTokens(input.value)
           THEN /\ Returned(outcome)
                /\ DOMAIN outcome.value = {"lat", "lng"}
                /\ Denotes(outcome.value.lat, FirstToken(input.value))
                /\ Denotes(outcome.value.lng, SecondToken(input.value))
           ELSE outcome = Raise("ValueError", <<"Invalid coorindate format">>)

\* "7, .7" resolves to lat 7, lng 0.7.
C7_Witness ==
    /\ ResolvedLiteral
    /\ input.value = <<"7", ",", " ", ".", "7">>
    /\ outcome = Return([lat |-> [num |-> 7, den |-> 1],
                         lng |-> [num |-> 7, den |-> 10]])

\* C8: with isCoordinates false or absent, exactly one geocode request is
\* issued, with value as its free text (also when value looks like a
\* coordinate pair); the first result's coordinate is returned, and zero
\* results fail with "Address not found".
C8_FreeTextGeocoded ==
    ResolvedFreeText =>
        /\ Len(provider_calls) = 1
        /\ provider_calls[1].api = "geocode"
        /\ provider_calls[1].params.address = input.value
        /\ LET answer == provider_calls[1].answer
           IN  IF answer.raises THEN Raised(outcome)
               ELSE IF answer.body = <<>>
               THEN /\ Raised(outcome)
                    /\ outcome.exc = "ValueError"
                    /\ outcome.msg[Len(outcome.msg)] = "Address not found"
               ELSE /\ Returned(outcome)
                    /\ outcome.value.lat = answer.body[1].geometry.location.lat
                    /\ outcome.value.lng = answer.body[1].geometry.location.lng

\* "7,7" without an isCoordinates flag is geocoded, and nothing is found.
C8_Witness ==
    /\ ResolvedFreeText
    /\ input = [value |-> <<"7", ",", "7">>]
    /\ provider_calls[1].answer = ProviderBody(<<>>)
    /\ outcome = Raise("ValueError", <<"Error geocoding address", "Address not found">>)

----------------------------------------------------------------------------
(* The other adapter operations of GoogleMapsTools *)

\* dict.get(key): None when the key is missing.
OGet(d, key) == IF key \in DOMAIN d THEN Some(d[key]) ELSE None

\* Truth value of an Optional[str] and of an Optional[float].
TruthyStr(o) == o # None /\ o[1] # ""
TruthyNum(o) == o # None /\ o[1] # 0

\* The i-th place of a nearby-search body, with or without a rating.
Place(i, rating) ==
    IF rating = None THEN [place_id |-> i, name |-> "place"]
    ELSE [place_id |-> i, name |-> "place", rating |-> rating[1]]

RatingOptions == {None} \cup {Some(r) : r \in 0..MaxRating}

PlacesBodies ==
    {[status |-> "ZERO_RESULTS"]}
        \cup {[status |-> "OK", results |-> [i \in 1..Len(rs) |-> Place(i, rs[i])]] :
                 rs \in UNION {[1..n -> RatingOptions] : n \in 0..MaxPlaces}}

PlacesAnswers ==
    {ProviderRaise(e) : e \in ProviderExceptions}
        \cup {ProviderBody(b) : b \in PlacesBodies}

SearchParams(self, params) ==
    LET base == [location |-> <<params.location.lat, params.location.lng>>,
                 radius |-> Get(params, "radius", 1000),
                 language |-> self.default_language]
        kw == IF TruthyStr(Get(params, "keyword", None))
              THEN [keyword |-> params.keyword[1]] ELSE <<>>
        open == IF Get(params, "openNow", FALSE) THEN [openNow |-> TRUE] ELSE <<>>
    IN  [k \in DOMAIN base \cup DOMAIN kw \cup DOMAIN open |->
            IF k \in DOMAIN base THEN base[k]
            ELSE IF k \in DOMAIN kw THEN kw[k] ELSE open[k]]

search_nearby_places_strict(self, params, answer) ==
    LET request == Call("search_nearby_places", "places_nearby",
                        SearchParams(self, params), answer)
        places == IF answer.raises THEN <<>> ELSE Get(answer.body, "results", <<>>)
        min_rating == Get(params, "minRating", None)
        Keep(place) == Get(place, "rating", 0) > min_rating[1]
    IN  IF "location" \notin DOMAIN params
        THEN Done(Raise("ValueError", <<"Error searching nearby places", "'location'">>),
                  <<>>)
        ELSE IF answer.raises
        THEN Done(Raise("ValueError", <<"Error searching nearby places">>
                                          \o ProviderMessage(answer.exc)),
                  <<request>>)
        ELSE Done(Return(IF TruthyNum(min_rating) THEN SelectSeq(places, Keep)
                         ELSE places),
                  <<request>>)

\* One client.places_nearby request; the places are filtered by
\* place.get("rating", 0) >= minRating when minRating is truthy.
search_nearby_places(self, params, answer) ==
    LET request == Call("search_nearby_places", "places_nearby",
                        SearchParams(self, params), answer)
        places == IF answer.raises THEN <<>> ELSE Get(answer.body, "results", <<>>)
        min_rating == Get(params, "minRating", None)
        Keep(place) == Get(place, "rating", 0) >= min_rating[1]
    IN  IF "location" \notin DOMAIN params
        THEN Done(Raise("ValueError", <<"Error searching nearby places", "'location'">>),
                  <<>>)
        ELSE IF answer.raises
        THEN Done(Raise("ValueError", <<"Error searching nearby places">>
                                          \o ProviderMessage(answer.exc)),
                  <<request>>)
        ELSE Done(Return(IF TruthyNum(min_rating) THEN SelectSeq(places, Keep)
                         ELSE places),
                  <<request>>)

DetailFields ==
    <<"name", "rating", "formatted_address", "opening_hours", "reviews",
      "geometry", "formatted_phone_number", "website", "price_level",
      "photos", "user_ratings_total">>

DetailsBodies ==
    {[status |-> "OK"],
     [status |-> "OK", result |-> [name |-> "place"]],
     [status |-> "OK",
      result |-> [name |-> "place", rating |-> MaxRating,
                  opening_hours |-> [open_now |-> TRUE],
                  photos |-> <<[photo_reference |-> "ref", height |-> 1]>>,
                  reviews |-> <<[rating |-> MaxRating, text |-> "good"]>>]]}

DetailsAnswers ==
    {ProviderRaise(e) : e \in ProviderExceptions}
        \cup {ProviderBody(b) : b \in DetailsBodies}

\* One client.place request; result.get("result", {}).
get_place_details(self, place_id, answer) ==
    LET request == Call("get_place_details", "place",
                        [place_id |-> place_id, fields |-> DetailFields,
                         language |-> self.default_language], answer)
    IN  IF answer.raises
        THEN Done(Raise("ValueError", <<"Error getting place details">>
                                          \o ProviderMessage(answer.exc)),
                  <<request>>)
        ELSE Done(Return(Get(answer.body, "result", <<>>)), <<request>>)

\* geocode_address, reshaped; its failure is wrapped once more.
geocode(self, address, answer) ==
    LET r == geocode_address(self, address, answer)
    IN  IF Raised(r.result)
        THEN Done(Raise("ValueError", Wrap("Error geocoding", r.result)), r.calls)
        ELSE Done(Return([location |-> [lat |-> r.result.value.lat,
                                        lng |-> r.result.value.lng],
                          formatted_address |-> r.result.value.formatted_address,
                          place_id |-> r.result.value.place_id]),
                  r.calls)

ReverseBodies ==
    {<<>>,
     <<[formatted_address |-> "addr", place_id |-> "pid",
        address_components |-> <<"street", "city">>]>>,
     <<[place_id |-> "pid"], [formatted_address |-> "other"]>>}

ReverseAnswers ==
    {ProviderRaise(e) : e \in ProviderExceptions}
        \cup {ProviderBody(b) : b \in ReverseBodies}

\* One client.reverse_geocode request; an empty list is a failure.
reverse_geocode(self, latitude, longitude, answer) ==
    LET request == Call("reverse_geocode", "reverse_geocode",
                        [latlng |-> <<latitude, longitude>>,
                         language |-> self.default_language], answer)
    IN  IF answer.raises
        THEN Done(Raise("ValueError", <<"Error reverse geocoding">>
                                          \o ProviderMessage(answer.exc)),
                  <<request>>)
        ELSE IF answer.body = <<>>
        THEN Done(Raise("ValueError", <<"Error reverse geocoding",
                                        "No address found for coordinates">>),
                  <<request>>)
        ELSE Done(Return([formatted_address |->
                              Get(answer.body[1], "formatted_address", ""),
                          place_id |-> Get(answer.body[1], "place_id", ""),
                          address_components |->
                              Get(answer.body[1], "address_components", <<>>)]),
                  <<request>>)

\* The i-th address of a request.
Addresses(n) == [i \in 1..n |-> ToString(i)]

ElementStatuses == {"OK", "ZERO_RESULTS"}

\* The element of the provider's matrix for origin i and destination j.
Element(i, j, status) ==
    IF status = "OK"
    THEN [status |-> "OK",
          distance |-> [value |-> 1000 * i + j, text |-> "km"],
          duration |-> [value |-> 60 * i + j, text |-> "mins"]]
    ELSE [status |-> status]

\* The provider answers a request of n origins and m destinations with a
\* top-level status and, when that is OK, one row per origin holding one
\* element per destination (the Distance Matrix API's contract).
MatrixBodies(n, m) ==
    {[status |-> st, rows |-> <<>>,
      origin_addresses |-> <<>>, destination_addresses |-> <<>>] :
         st \in {"ZERO_RESULTS", "INVALID_REQUEST"}}
        \cup {[status |-> "OK",
               rows |-> [i \in 1..n |->
                           [elements |-> [j \in 1..m |-> Element(i, j, grid[i][j])]]],
               origin_addresses |-> Addresses(n),
               destination_addresses |-> Addresses(m)] :
                 grid \in [1..n -> [1..m -> ElementStatuses]]}

MatrixAnswers(n, m) ==
    {ProviderRaise(e) : e \in ProviderExceptions}
        \cup {ProviderBody(b) : b \in MatrixBodies(n, m)}

\* The two cells that one element of the provider's matrix becomes.
DistanceCell(element) ==
    IF element.status = "OK"
    THEN Some([value |-> element.distance.value, text |-> element.distance.text])
    ELSE None

DurationCell(element) ==
    IF element.status = "OK"
    THEN Some([value |-> element.duration.value, text |-> element.duration.text])
    ELSE None

calculate_distance_matrix_skip(self, origins, destinations, mode, answer) ==
    LET request == Call("calculate_distance_matrix", "distance_matrix",
                        [origins |-> origins, destinations |-> destinations,
                         mode |-> mode, language |-> self.default_language],
                        answer)
        result == answer.body
        IsOK(element) == element.status = "OK"
    IN  IF answer.raises
        THEN Done(Raise("ValueError", <<"Error calculating distance matrix">>
                                          \o ProviderMessage(answer.exc)),
                  <<request>>)
        ELSE IF result.status # "OK"
        THEN Done(Raise("ValueError",
                        <<"Error calculating distance matrix",
                          "Distance matrix calculation failed", result.status>>),
                  <<request>>)
        ELSE Done(Return(
                [distances |->
                    [i \in 1..Len(result.rows) |->
                        LET row == SelectSeq(result.rows[i].elements, IsOK)
                        IN  [j \in 1..Len(row) |-> DistanceCell(row[j])]],
                 durations |->
                    [i \in 1..Len(result.rows) |->
                        LET row == SelectSeq(result.rows[i].elements, IsOK)
                        IN  [j \in 1..Len(row) |-> DurationCell(row[j])]],
                 origin_addresses |-> result.origin_addresses,
                 destination_addresses |-> result.destination_addresses]),
                  <<request>>)

calculate_distance_matrix_strict(self, origins, destinations, mode, answer) ==
    LET request == Call("calculate_distance_matrix", "distance_matrix",
                        [origins |-> origins, destinations |-> destinations,
                         mode |-> mode, language |-> self.default_language],
                        answer)
        result == answer.body
    IN  IF answer.raises
        THEN Done(Raise("ValueError", <<"Error calculating distance matrix">>
                                          \o ProviderMessage(answer.exc)),
                  <<request>>)
        ELSE IF \/ result.status # "OK"
                \/ \E i \in 1..Len(result.rows) :
                      \E j \in 1..Len(result.rows[i].elements) :
                          result.rows[i].elements[j].status # "OK"
        THEN Done(Raise("ValueError",
                        <<"Error calculating distance matrix",
                          "Distance matrix calculation failed", result.status>>),
                  <<request>>)
        ELSE Done(Return(
                [distances |->
                    [i \in 1..Len(result.rows) |->
                        [j \in 1..Len(result.rows[i].elements) |->
                            DistanceCell(result.rows[i].elements[j])]],
                 durations |->
                    [i \in 1..Len(result.rows) |->
                        [j \in 1..Len(result.rows[i].elements) |->
                            DurationCell(result.rows[i].elements[j])]],
                 origin_addresses |-> result.origin_addresses,
                 destination_addresses |-> result.destination_addresses]),
                  <<request>>)

\* One client.distance_matrix request; a top-level status other than OK
\* fails the call; each element of each row becomes one distance cell and
\* one duration cell.
calculate_distance_matrix(self, origins, destinations, mode, answer) ==
    LET request == Call("calculate_distance_matrix", "distance_matrix",
                        [origins |-> origins, destinations |-> destinations,
                         mode |-> mode, language |-> self.default_language],
                        answer)
        result == answer.body
    IN  IF answer.raises
        THEN Done(Raise("ValueError", <<"Error calculating distance matrix">>
                                          \o ProviderMessage(answer.exc)),
                  <<request>>)
        ELSE IF result.status # "OK"
        THEN Done(Raise("ValueError",
                        <<"Error calculating distance matrix",
                          "Distance matrix calculation failed", result.status>>),
                  <<request>>)
        ELSE Done(Return(
                [distances |->
                    [i \in 1..Len(result.rows) |->
                        [j \in 1..Len(result.rows[i].elements) |->
                            DistanceCell(result.rows[i].elements[j])]],
                 durations |->
                    [i \in 1..Len(result.rows) |->
                        [j \in 1..Len(result.rows[i].elements) |->
                            DurationCell(result.rows[i].elements[j])]],
                 origin_addresses |-> result.origin_addresses,
                 destination_addresses |-> result.destination_addresses]),
                  <<request>>)

\* The l-th leg of the r-th route; a timed leg carries the two timestamps.
Leg(r, l, timed) ==
    IF timed
    THEN [distance |-> [value |-> 1000 * r + l, text |-> "km"],
          duration |-> [value |-> 60 * r + l, text |-> "mins"],
          arrival_time |-> [value |-> 7200 + r, text |-> "11:00"],
          departure_time |-> [value |-> 3600 + r, text |-> "10:00"]]
    ELSE [distance |-> [value |-> 1000 * r + l, text |-> "km"],
          duration |-> [value |-> 60 * r + l, text |-> "mins"]]

Route(r, legs, timed) ==
    IF timed
    THEN [summary |-> ToString(r), legs |-> [l \in 1..legs |-> Leg(r, l, timed)]]
    ELSE [legs |-> [l \in 1..legs |-> Leg(r, l, timed)]]

\* A directions body: no route, or up to MaxRoutes routes of one to
\* MaxLegs legs each.
DirectionsBodies ==
    {[r \in 1..Len(shape) |-> Route(r, shape[r], timed)] :
        shape \in UNION {[1..n -> 1..MaxLegs] : n \in 0..MaxRoutes},
        timed \in BOOLEAN}

DirectionsAnswers ==
    {ProviderRaise(e) : e \in ProviderExceptions}
        \cup {ProviderBody(b) : b \in DirectionsBodies}

\* datetime.fromtimestamp(value).strftime('%Y-%m-%d %H:%M:%S')
strftime(value) == ToString(value)

\* format_time(leg.get(key))
format_time(leg, key) ==
    IF key \notin DOMAIN leg THEN ""
    ELSE IF "value" \notin DOMAIN leg[key] THEN ""
    ELSE strftime(leg[key].value)

\* The request of get_directions with the departure time preferred.
DirectionsParams_departure_first(self, origin, destination, mode, departure_time, arrival_time) ==
    IF departure_time # None
    THEN [origin |-> origin, destination |-> destination, mode |-> mode,
          language |-> self.default_language, departure_time |-> departure_time]
    ELSE IF arrival_time # None
    THEN [origin |-> origin, destination |-> destination, mode |-> mode,
          language |-> self.default_language, arrival_time |-> arrival_time]
    ELSE [origin |-> origin, destination |-> destination, mode |-> mode,
          language |-> self.default_language, departure_time |-> departure_time]

\* The request of get_directions: arrival_time when it is given, else
\* departure_time (None included).
DirectionsParams(self, origin, destination, mode, departure_time, arrival_time) ==
    IF arrival_time # None
    THEN [origin |-> origin, destination |-> destination, mode |-> mode,
          language |-> self.default_language, arrival_time |-> arrival_time]
    ELSE IF departure_time # None
    THEN [origin |-> origin, destination |-> destination, mode |-> mode,
          language |-> self.default_language, departure_time |-> departure_time]
    ELSE [origin |-> origin, destination |-> destination, mode |-> mode,
          language |-> self.default_language, departure_time |-> departure_time]

\* get_directions reading the last route and its last leg.
get_directions_last(self, origin, destination, mode, departure_time, arrival_time, answer) ==
    LET request == Call("get_directions", "directions",
                        DirectionsParams(self, origin, destination, mode,
                                         departure_time, arrival_time),
                        answer)
        result == answer.body
        route == result[Len(result)]
        leg == route.legs[Len(route.legs)]
    IN  IF answer.raises
        THEN Done(Raise("ValueError", <<"Error getting directions">>
                                          \o ProviderMessage(answer.exc)),
                  <<request>>)
        ELSE IF result = <<>>
        THEN Done(Raise("ValueError", <<"Error getting directions", "No route found">>),
                  <<request>>)
        ELSE IF route.legs = <<>>
        THEN Done(Raise("ValueError", <<"Error getting directions",
                                        "list index out of range">>),
                  <<request>>)
        ELSE Done(Return([routes |-> result,
                          summary |-> Get(route, "summary", ""),
                          total_distance |-> [value |-> leg.distance.value,
                                              text |-> leg.distance.text],
                          total_duration |-> [value |-> leg.duration.value,
                                              text |-> leg.duration.text],
                          arrival_time |-> format_time(leg, "arrival_time"),
                          departure_time |-> format_time(leg, "departure_time")]),
                  <<request>>)

\* One client.directions request; an empty list is a failure; the result
\* is read off the first route and its first leg.
get_directions(self, origin, destination, mode, departure_time, arrival_time, answer) ==
    LET request == Call("get_directions", "directions",
                        DirectionsParams(self, origin, destination, mode,
                                         departure_time, arrival_time),
                        answer)
        result == answer.body
        route == result[1]
        leg == route.legs[1]
    IN  IF answer.raises
        THEN Done(Raise("ValueError", <<"Error getting directions">>
                                          \o ProviderMessage(answer.exc)),
                  <<request>>)
        ELSE IF result = <<>>
        THEN Done(Raise("ValueError", <<"Error getting directions", "No route found">>),
                  <<request>>)
        ELSE IF route.legs = <<>>
        THEN Done(Raise("ValueError", <<"Error getting directions",
                                        "list index out of range">>),
                  <<request>>)
        ELSE Done(Return([routes |-> result,
                          summary |-> Get(route, "summary", ""),
                          total_distance |-> [value |-> leg.distance.value,
                                              text |-> leg.distance.text],
                          total_duration |-> [value |-> leg.duration.value,
                                              text |-> leg.duration.text],
                          arrival_time |-> format_time(leg, "arrival_time"),
                          departure_time |-> format_time(leg, "departure_time")]),
                  <<request>>)

\* A requested point; one without its longitude.
Point(k) == [latitude |-> k, longitude |-> 100 + k]
BadPoint == [latitude |-> 0]

\* The provider's samples for the points asked, one per point, in order.
ElevationBody(formatted_locations) ==
    [i \in 1..Len(formatted_locations) |->
        [elevation |-> 10 * formatted_locations[i][1],
         location |-> [lat |-> formatted_locations[i][1],
                       lng |-> formatted_locations[i][2]],
         resolution |-> 1]]

ElevationAnswers(locations) ==
    {ProviderRaise(e) : e \in ProviderExceptions}
        \cup (IF \A i \in 1..Len(locations) : "longitude" \in DOMAIN locations[i]
              THEN {ProviderBody(ElevationBody(
                        [i \in 1..Len(locations) |->
                            <<locations[i].latitude, locations[i].longitude>>]))}
              ELSE {})

\* get_elevation handing the samples back last point first.
get_elevation_reversed(self, locations, answer) ==
    LET formatted_locations ==
            [i \in 1..Len(locations) |->
                <<locations[i].latitude, locations[i].longitude>>]
        request == Call("get_elevation", "elevation",
                        [locations |-> formatted_locations], answer)
        n == Len(answer.body)
    IN  IF \E i \in 1..Len(locations) : "latitude" \notin DOMAIN locations[i]
        THEN Done(Raise("ValueError", <<"Error getting elevation data", "'latitude'">>),
                  <<>>)
        ELSE IF \E i \in 1..Len(locations) : "longitude" \notin DOMAIN locations[i]
        THEN Done(Raise("ValueError", <<"Error getting elevation data", "'longitude'">>),
                  <<>>)
        ELSE IF answer.raises
        THEN Done(Raise("ValueError", <<"Error getting elevation data">>
                                          \o ProviderMessage(answer.exc)),
                  <<request>>)
        ELSE Done(Return([i \in 1..n |->
                            [elevation |-> answer.body[n + 1 - i].elevation,
                             location |-> [lat |-> answer.body[n + 1 - i].location.lat,
                                           lng |-> answer.body[n + 1 - i].location.lng]]]),
                  <<request>>)

\* One client.elevation request for the (latitude, longitude) pairs; a
\* point without one of the two keys fails before any request.
get_elevation(self, locations, answer) ==
    LET formatted_locations ==
            [i \in 1..Len(locations) |->
                <<locations[i].latitude, locations[i].longitude>>]
        request == Call("get_elevation", "elevation",
                        [locations |-> formatted_locations], answer)
    IN  IF \E i \in 1..Len(locations) : "latitude" \notin DOMAIN locations[i]
        THEN Done(Raise("ValueError", <<"Error getting elevation data", "'latitude'">>),
                  <<>>)
        ELSE IF \E i \in 1..Len(locations) : "longitude" \notin DOMAIN locations[i]
        THEN Done(Raise("ValueError", <<"Error getting elevation data", "'longitude'">>),
                  <<>>)
        ELSE IF answer.raises
        THEN Done(Raise("ValueError", <<"Error getting elevation data">>
                                          \o ProviderMessage(answer.exc)),
                  <<request>>)
        ELSE Done(Return([i \in 1..Len(answer.body) |->
                            [elevation |-> answer.body[i].elevation,
                             location |-> [lat |-> answer.body[i].location.lat,
                                           lng |-> answer.body[i].location.lng]]]),
                  <<request>>)

----------------------------------------------------------------------------
(* The tool gateway of server.py *)

except_ValueError(prefix, r) ==
    IF r.result.exc = "ValueError"
    THEN Done(Raise("RuntimeError", Wrap(prefix, r.result)), r.calls)
    ELSE r

\* except Exception as e: raise RuntimeError(f"{prefix}: {str(e)}")
except_Exception(prefix, r) ==
    IF r.result.exc \in ExceptionSubclasses
    THEN Done(Raise("RuntimeError", Wrap(prefix, r.result)), r.calls)
    ELSE r

\* The body of a handler's try block, with its except clause.
Try(prefix, r) == IF Raised(r.result) THEN except_Exception(prefix, r) ELSE r

\* place.get('geometry', {}).get('location') and the like.
OGet2(d, outer, inner) ==
    IF outer \in DOMAIN d THEN OGet(d[outer], inner) ELSE None

FormattedPlace(place) ==
    [name |-> OGet(place, "name"),
     place_id |-> OGet(place, "place_id"),
     address |-> OGet(place, "formatted_address"),
     location |-> OGet2(place, "geometry", "location"),
     rating |-> OGet(place, "rating"),
     total_ratings |-> OGet(place, "user_ratings_total"),
     open_now |-> OGet2(place, "opening_hours", "open_now"),
     types |-> Get(place, "types", <<>>),
     price_level |-> OGet(place, "price_level"),
     vicinity |-> OGet(place, "vicinity")]

FormattedPlaces(places) ==
    [i \in 1..Len(places) |-> FormattedPlace(places[i])]

\* The dict that search_nearby returns.
SearchResult(location, formatted_places) ==
    [location |-> location,
     places |-> formatted_places,
     total_results |-> Len(formatted_places)]

\* search_nearby once search_nearby_places has ended.
search_nearby_format(location, places) ==
    IF Raised(places.result)
    THEN Try("Search failed", Done(places.result, location.calls \o places.calls))
    ELSE Done(Return(SearchResult(location.result.value,
                                  FormattedPlaces(places.result.value))),
              location.calls \o places.calls)

\* search_nearby once get_location has ended: a failed resolve ends the
\* handler, else search_nearby_places runs with the location.
search_nearby_at(handle, location, keyword, radius, openNow, minRating, nearby) ==
    IF Raised(location.result) THEN Try("Search failed", location)
    ELSE search_nearby_format(location,
            search_nearby_places(handle,
                [location |-> location.result.value,
                 keyword |-> keyword, radius |-> radius,
                 openNow |-> openNow, minRating |-> minRating],
                nearby))

search_nearby(handle, center, keyword, radius, openNow, minRating, geocoded, nearby) ==
    IF handle = NoneTools
    THEN Done(Raise("RuntimeError", <<"Google Map Tools not initialized">>), <<>>)
    ELSE search_nearby_at(handle, get_location(handle, center, geocoded),
                          keyword, radius, openNow, minRating, nearby)

FormattedPhoto(photo) ==
    [photo_reference |-> OGet(photo, "photo_reference"),
     height |-> OGet(photo, "height"),
     width |-> OGet(photo, "width")]

FormattedReview(review) ==
    [rating |-> OGet(review, "rating"),
     text |-> OGet(review, "text"),
     time |-> OGet(review, "time"),
     author_name |-> OGet(review, "author_name"),
     author_url |-> OGet(review, "author_url"),
     language |-> OGet(review, "language"),
     profile_photo_url |-> OGet(review, "profile_photo_url"),
     relative_time_description |-> OGet(review, "relative_time_description")]

FormattedDetails(placeId, details) ==
    [name |-> OGet(details, "name"),
     place_id |-> placeId,
     address |-> OGet(details, "formatted_address"),
     location |-> OGet2(details, "geometry", "location"),
     rating |-> OGet(details, "rating"),
     total_ratings |-> OGet(details, "user_ratings_total"),
     open_now |-> OGet2(details, "opening_hours", "open_now"),
     opening_hours |->
         IF "opening_hours" \in DOMAIN details
         THEN Get(details.opening_hours, "weekday_text", <<>>) ELSE <<>>,
     phone |-> OGet(details, "formatted_phone_number"),
     international_phone |-> OGet(details, "international_phone_number"),
     website |-> OGet(details, "website"),
     url |-> OGet(details, "url"),
     price_level |-> OGet(details, "price_level"),
     types |-> Get(details, "types", <<>>),
     photos |-> LET photos == Get(details, "photos", <<>>)
                IN  [i \in 1..Len(photos) |-> FormattedPhoto(photos[i])],
     reviews |-> LET reviews == Get(details, "reviews", <<>>)
                 IN  [i \in 1..Len(reviews) |-> FormattedReview(reviews[i])]]

get_place_details_tool(handle, placeId, answer) ==
    IF handle = NoneTools
    THEN Done(Raise("RuntimeError", <<"Google Maps tools not initialized">>), <<>>)
    ELSE LET details == get_place_details(handle, placeId, answer)
         IN  IF Raised(details.result)
             THEN Try("Failed to get place details", details)
             ELSE Done(Return(FormattedDetails(placeId, details.result.value)),
                       details.calls)

maps_geocode(handle, address, answer) ==
    IF handle = NoneTools
    THEN Done(Raise("RuntimeError", <<"Google Maps tools not initialized">>), <<>>)
    ELSE Try("Geocoding failed", geocode(handle, address, answer))

maps_reverse_geocode(handle, latitude, longitude, answer) ==
    IF handle = NoneTools
    THEN Done(Raise("RuntimeError", <<"Google Maps tools not initialized">>), <<>>)
    ELSE Try("Reverse geocoding failed",
             reverse_geocode(handle, latitude, longitude, answer))

maps_distance_matrix(handle, origins, destinations, mode, answer) ==
    IF handle = NoneTools
    THEN Done(Raise("RuntimeError", <<"Google Maps tools not initialized">>), <<>>)
    ELSE Try("Distance matrix calculation failed",
             calculate_distance_matrix(handle, origins, destinations, mode, answer))

\* str.replace('Z', '+00:00') on the time strings of the model.
replace_Z(text) ==
    IF text = "2025-01-01T18:00:00Z" THEN "2025-01-01T18:00:00+00:00" ELSE text

\* datetime.fromisoformat
fromisoformat(text) ==
    CASE text = "2025-01-01T09:00:00" ->
            Return([date |-> "2025-01-01", hour |-> 9, tzinfo |-> None])
      [] text = "2025-01-01T18:00:00+00:00" ->
            Return([date |-> "2025-01-01", hour |-> 18, tzinfo |-> Some(0)])
      [] OTHER -> Raise("ValueError", <<"Invalid isoformat string">>)

\* The parsing of one optional time string in maps_directions.
ParseTime(time) ==
    IF ~TruthyStr(time) THEN Return(None)
    ELSE LET first == fromisoformat(replace_Z(time[1]))
             second == fromisoformat(time[1])
         IN  IF Returned(first) THEN Return(Some(first.value))
             ELSE IF Returned(second) THEN Return(Some(second.value))
             ELSE second

maps_directions(handle, origin, destination, mode, departure_time, arrival_time, answer) ==
    IF handle = NoneTools
    THEN Done(Raise("RuntimeError", <<"Google Maps tools not initialized">>), <<>>)
    ELSE LET dept_time == ParseTime(departure_time)
             arr_time == ParseTime(arrival_time)
         IN  IF Raised(dept_time)
             THEN Try("Failed to get directions", Done(dept_time, <<>>))
             ELSE IF Raised(arr_time)
             THEN Try("Failed to get directions", Done(arr_time, <<>>))
             ELSE Try("Failed to get directions",
                      get_directions(handle, origin, destination, mode,
                                     dept_time.value, arr_time.value, answer))

maps_elevation_unguarded(handle, locations, answer) ==
    IF handle = NoneTools
    THEN Try("Failed to get elevation data",
             Done(Raise("AttributeError",
                        <<"'NoneType' object has no attribute 'get_elevation'">>),
                  <<>>))
    ELSE Try("Failed to get elevation data", get_elevation(handle, locations, answer))

maps_elevation(handle, locations, answer) ==
    IF handle = NoneTools
    THEN Done(Raise("RuntimeError", <<"Google Maps tools not initialized">>), <<>>)
    ELSE Try("Failed to get elevation data", get_elevation(handle, locations, answer))

\* The status resource: a string, never a failure.
get_server_status(handle, answer) ==
    IF handle = NoneTools
    THEN Done(Return(<<"Google Maps tools not initialized">>), <<>>)
    ELSE LET r == geocode(handle, "Google", answer)
         IN  IF Raised(r.result)
             THEN Done(Return(Wrap("Google Maps API error", r.result)), r.calls)
             ELSE Done(Return(<<"Google Maps API is working correctly">>), r.calls)

validate_api_key(handle, answer) ==
    IF handle = NoneTools THEN Done(Return(FALSE), <<>>)
    ELSE LET r == geocode(handle, "Google", answer)
         IN  Done(Return(Returned(r.result)), r.calls)

----------------------------------------------------------------------------
(* The server: main() and the invocations of the tools *)

Init ==
    /\ maps_tools = NoneTools
    /\ main_pc = "start"
    /\ env_key \in {"", "key"}
    /\ stdout = <<>>
    /\ tool = "none"
    /\ input = <<>>
    /\ provider_calls = <<>>
    /\ outcome = NotRun
    /\ inflight = NoneInFlight

\* maps_tools = GoogleMapsTools(); a failure is printed and raised again.
MainConstruct ==
    /\ main_pc = "start"
    /\ LET made == GoogleMapsTools_init(env_key)
       IN  IF Raised(made)
           THEN /\ main_pc' = "failed"
                /\ stdout' = Append(stdout, "Server error")
                /\ UNCHANGED maps_tools
           ELSE /\ main_pc' = "constructed"
                /\ maps_tools' = made.value
                /\ UNCHANGED stdout
    /\ UNCHANGED <<env_key, tool, input, provider_calls, outcome, inflight>>

\* validate_api_key(), the two prints and mcp.run().
MainValidate ==
    /\ main_pc = "constructed"
    /\ Idle
    /\ \E answer \in GeocodeAnswers :
         LET r == validate_api_key(maps_tools, answer)
         IN  /\ tool' = "validate_api_key"
             /\ input' = <<>>
             /\ provider_calls' = r.calls
             /\ outcome' = r.result
             /\ stdout' = stdout \o
                    <<IF r.result.value THEN "validated" ELSE "Warning",
                      "Starting MCP Google Maps Server...">>
    /\ main_pc' = "serving"
    /\ UNCHANGED <<maps_tools, env_key, inflight>>

Invoke(name, arguments, r) ==
    /\ tool' = name
    /\ input' = arguments
    /\ provider_calls' = r.calls
    /\ outcome' = r.result
    /\ UNCHANGED server

Centers ==
    {[value |-> <<"7", ",", "7">>, isCoordinates |-> TRUE],
     [value |-> <<"7", ",", "7", ",", "7">>, isCoordinates |-> TRUE],
     [value |-> <<"7", ",", "7">>],
     [value |-> <<"-">>, isCoordinates |-> FALSE],
     [isCoordinates |-> TRUE]}

CallSearchNearby ==
    /\ Idle
    /\ \E center \in Centers, keyword \in {None, Some("cafe")},
          openNow \in BOOLEAN, minRating \in RatingOptions,
          geocoded \in GeocodeAnswers, nearby \in PlacesAnswers :
         Invoke("search_nearby",
                [center |-> center, keyword |-> keyword, radius |-> 1000,
                 openNow |-> openNow, minRating |-> minRating],
                search_nearby(maps_tools, center, keyword, 1000, openNow,
                              minRating, geocoded, nearby))

CallGetPlaceDetails ==
    /\ Idle
    /\ \E answer \in DetailsAnswers :
         Invoke("get_place_details", [placeId |-> "pid"],
                get_place_details_tool(maps_tools, "pid", answer))

CallGeocode ==
    /\ Idle
    /\ \E address \in {"Google Headquarters", ""}, answer \in GeocodeAnswers :
         Invoke("maps_geocode", [address |-> address],
                maps_geocode(maps_tools, address, answer))

CallReverseGeocode ==
    /\ Idle
    /\ \E latitude \in {37, 91}, answer \in ReverseAnswers :
         Invoke("maps_reverse_geocode",
                [latitude |-> latitude, longitude |-> 0 - 122],
                maps_reverse_geocode(maps_tools, latitude, 0 - 122, answer))

CallDistanceMatrix ==
    /\ Idle
    /\ \E n \in 1..MaxOrigins, m \in 1..MaxDests, mode \in {"driving", "walking"} :
         \E answer \in MatrixAnswers(n, m) :
            Invoke("maps_distance_matrix",
                   [origins |-> Addresses(n), destinations |-> Addresses(m),
                    mode |-> mode],
                   maps_distance_matrix(maps_tools, Addresses(n), Addresses(m),
                                        mode, answer))

TimeStrings ==
    {None, Some(""), Some("2025-01-01T09:00:00"), Some("2025-01-01T18:00:00Z"),
     Some("tomorrow")}

CallDirections ==
    /\ Idle
    /\ \E mode \in {"driving", "transit"}, departure_time \in TimeStrings,
          arrival_time \in TimeStrings, answer \in DirectionsAnswers :
         Invoke("maps_directions",
                [origin |-> "A", destination |-> "B", mode |-> mode,
                 departure_time |-> departure_time, arrival_time |-> arrival_time],
                maps_directions(maps_tools, "A", "B", mode, departure_time,
                                arrival_time, answer))

PointLists == UNION {[1..n -> {Point(1), Point(2), BadPoint}] : n \in 0..MaxPoints}

CallElevation ==
    /\ Idle
    /\ \E locations \in PointLists :
         \E answer \in ElevationAnswers(locations) :
            Invoke("maps_elevation", [locations |-> locations],
                   maps_elevation(maps_tools, locations, answer))

ReadStatus ==
    /\ Idle
    /\ \E answer \in GeocodeAnswers :
         Invoke("get_server_status", <<>>, get_server_status(maps_tools, answer))

Next ==
    \/ MainConstruct
    \/ MainValidate
    \/ CallSearchNearby
    \/ CallGetPlaceDetails
    \/ CallGeocode
    \/ CallReverseGeocode
    \/ CallDistanceMatrix
    \/ CallDirections
    \/ CallElevation
    \/ ReadStatus
    \/ Finish

Spec == Init /\ [][Next]_vars

----------------------------------------------------------------------------
(* Invocations side by side: the host runs several handlers at once, each  *)
(* of them reading the global maps_tools where its code reads it, and a    *)
(* provider round trip of one leaves the others free to run                *)

\* The provider interface that each handler but search_nearby asks once.
ApiOf(name) ==
    CASE name = "get_place_details" -> "place"
      [] name = "maps_geocode" -> "geocode"
      [] name = "maps_reverse_geocode" -> "reverse_geocode"
      [] name = "maps_distance_matrix" -> "distance_matrix"
      [] name = "maps_directions" -> "directions"
      [] name = "maps_elevation" -> "elevation"
      [] name = "get_server_status" -> "geocode"

\* One answer of each kind per provider interface.
ConcurrentBodies(api) ==
    CASE api = "geocode" ->
            {<<>>, <<GeocodeResult(37, 0 - 122, {"formatted_address", "place_id"})>>}
      [] api = "places_nearby" ->
            {[status |-> "OK", results |-> <<Place(1, None)>>]}
      [] api = "place" -> {[status |-> "OK", result |-> [name |-> "place"]]}
      [] api = "reverse_geocode" ->
            {<<[formatted_address |-> "addr", place_id |-> "pid",
                address_components |-> <<"street", "city">>]>>}
      [] api = "distance_matrix" ->
            {[status |-> "OK",
              rows |-> <<[elements |-> <<Element(1, 1, "OK")>>]>>,
              origin_addresses |-> Addresses(1),
              destination_addresses |-> Addresses(1)]}
      [] api = "directions" -> {<<Route(1, 1, TRUE)>>}
      [] api = "elevation" -> {ElevationBody(<<<<1, 101>>>>)}

ConcurrentAnswers(api) ==
    {ProviderRaise("ApiError")} \cup {ProviderBody(b) : b \in ConcurrentBodies(api)}

\* The invocations a client may send: a handler and its arguments.
Jobs ==
    {[tool |-> "search_nearby",
      args |-> [center |-> center, keyword |-> None, radius |-> 1000,
                openNow |-> FALSE, minRating |-> None]] :
        center \in {[value |-> <<"7", ",", "7">>, isCoordinates |-> TRUE],
                    [value |-> <<"-">>, isCoordinates |-> FALSE]}}
    \cup
    {[tool |-> "get_place_details", args |-> [placeId |-> "pid"]],
     [tool |-> "maps_geocode", args |-> [address |-> "Google Headquarters"]],
     [tool |-> "maps_reverse_geocode",
      args |-> [latitude |-> 37, longitude |-> 0 - 122]],
     [tool |-> "maps_distance_matrix",
      args |-> [origins |-> Addresses(1), destinations |-> Addresses(1),
                mode |-> "driving"]],
     [tool |-> "maps_directions",
      args |-> [origin |-> "A", destination |-> "B", mode |-> "driving",
                departure_time |-> None, arrival_time |-> None]],
     [tool |-> "maps_elevation", args |-> [locations |-> <<Point(1)>>]],
     [tool |-> "get_server_status", args |-> <<>>]}

\* The provider's answer to the request sent to api, when one was sent.
NoAnswers == <<>>
AnswerOf(answers, api) == Get(answers, api, ProviderBody(<<>>))

\* A handler run from its first line to its last with the adapter handle
\* and the provider's answers to the requests it sends.
RunTool(handle, job, answers) ==
    CASE job.tool = "search_nearby" ->
            search_nearby(handle, job.args.center, job.args.keyword,
                          job.args.radius, job.args.openNow, job.args.minRating,
                          AnswerOf(answers, "geocode"),
                          AnswerOf(answers, "places_nearby"))
      [] job.tool = "get_place_details" ->
            get_place_details_tool(handle, job.args.placeId, AnswerOf(answers, "place"))
      [] job.tool = "maps_geocode" ->
            maps_geocode(handle, job.args.address, AnswerOf(answers, "geocode"))
      [] job.tool = "maps_reverse_geocode" ->
            maps_reverse_geocode(handle, job.args.latitude, job.args.longitude,
                                 AnswerOf(answers, "reverse_geocode"))
      [] job.tool = "maps_distance_matrix" ->
            maps_distance_matrix(handle, job.args.origins, job.args.destinations,
                                 job.args.mode, AnswerOf(answers, "distance_matrix"))
      [] job.tool = "maps_directions" ->
            maps_directions(handle, job.args.origin, job.args.destination,
                            job.args.mode, job.args.departure_time,
                            job.args.arrival_time, AnswerOf(answers, "directions"))
      [] job.tool = "maps_elevation" ->
            maps_elevation(handle, job.args.locations, AnswerOf(answers, "elevation"))
      [] job.tool = "get_server_status" ->
            get_server_status(handle, AnswerOf(answers, "geocode"))

Ended(job, answers, done) ==
    [pc |-> "done", job |-> job, answers |-> answers, done |-> done]

\* Worker w takes an invocation and runs the handler's first statement,
\* `if maps_tools is None`, on the global as it is now.
Enter(w) ==
    /\ main_pc = "serving"
    /\ inflight[w].pc = "idle"
    /\ \E job \in Jobs :
         inflight' = [inflight EXCEPT ![w] =
            IF maps_tools = NoneTools
            THEN Ended(job, NoAnswers, RunTool(maps_tools, job, NoAnswers))
            ELSE [pc |-> "entered", job |-> job, answers |-> NoAnswers]]
    /\ UNCHANGED <<maps_tools, main_pc, env_key, stdout, tool, input, provider_calls, outcome>>

\* search_nearby once get_location has ended, in flight: a failed resolve
\* ends the handler, else the location waits for search_nearby_places.
Located(job, answer, location) ==
    IF Raised(location.result)
    THEN Ended(job, IF location.calls = <<>> THEN NoAnswers ELSE "geocode" :> answer,
               Try("Search failed", location))
    ELSE [pc |-> "located", job |-> job,
          answers |-> IF location.calls = <<>> THEN NoAnswers ELSE "geocode" :> answer,
          location |-> location]

\* search_nearby: location = maps_tools.get_location(center), the global
\* read again; a literal pair asks the provider nothing.
Locate(w) ==
    /\ inflight[w].pc = "entered"
    /\ inflight[w].job.tool = "search_nearby"
    /\ \E answer \in ConcurrentAnswers("geocode") :
         inflight' = [inflight EXCEPT ![w] =
            Located(inflight[w].job, answer,
                    get_location(maps_tools, inflight[w].job.args.center, answer))]
    /\ UNCHANGED <<maps_tools, main_pc, env_key, stdout, tool, input, provider_calls, outcome>>

\* search_nearby: places = maps_tools.search_nearby_places(...), the global
\* read a third time, and the reshaping of the places.
Search(w) ==
    /\ inflight[w].pc = "located"
    /\ LET job == inflight[w].job
       IN  \E nearby \in ConcurrentAnswers("places_nearby") :
             inflight' = [inflight EXCEPT ![w] =
                Ended(job, inflight[w].answers @@ ("places_nearby" :> nearby),
                      search_nearby_at(maps_tools, inflight[w].location,
                                       job.args.keyword, job.args.radius,
                                       job.args.openNow, job.args.minRating, nearby))]
    /\ UNCHANGED <<maps_tools, main_pc, env_key, stdout, tool, input, provider_calls, outcome>>

\* A handler that keeps the language of its request on the shared adapter.
Respond_language(w) ==
    /\ inflight[w].pc = "entered"
    /\ inflight[w].job.tool # "search_nearby"
    /\ LET job == inflight[w].job
       IN  \E answer \in ConcurrentAnswers(ApiOf(job.tool)) :
             LET answers == ApiOf(job.tool) :> answer
             IN  inflight' = [inflight EXCEPT ![w] =
                    Ended(job, answers, RunTool(maps_tools, job, answers))]
    /\ maps_tools' = [maps_tools EXCEPT !.default_language = "en"]
    /\ UNCHANGED <<main_pc, env_key, stdout, tool, input, provider_calls, outcome>>

\* Every other handler: its one adapter call on the global, the provider's
\* answer, and the reshaping of the result.
Respond(w) ==
    /\ inflight[w].pc = "entered"
    /\ inflight[w].job.tool # "search_nearby"
    /\ LET job == inflight[w].job
       IN  \E answer \in ConcurrentAnswers(ApiOf(job.tool)) :
             LET answers == ApiOf(job.tool) :> answer
             IN  inflight' = [inflight EXCEPT ![w] =
                    Ended(job, answers, RunTool(maps_tools, job, answers))]
    /\ UNCHANGED <<maps_tools, main_pc, env_key, stdout, tool, input, provider_calls, outcome>>

\* The handler returns or raises to the host; the worker is free again.
Leave(w) ==
    /\ inflight[w].pc = "done"
    /\ inflight' = [inflight EXCEPT ![w] = [pc |-> "idle"]]
    /\ UNCHANGED <<maps_tools, main_pc, env_key, stdout, tool, input, provider_calls, outcome>>

NextConcurrent ==
    \/ MainConstruct
    \/ MainValidate
    \/ \E w \in Workers : Enter(w)
    \/ \E w \in Workers : Locate(w)
    \/ \E w \in Workers : Search(w)
    \/ \E w \in Workers : Respond(w)
    \/ \E w \in Workers : Leave(w)

SpecConcurrent == Init /\ [][NextConcurrent]_vars

----------------------------------------------------------------------------
(* Properties of the gateway and the adapter *)

ToolNames ==
    {"search_nearby", "get_place_details", "maps_geocode", "maps_reverse_geocode",
     "maps_distance_matrix", "maps_directions", "maps_elevation"}

NotInitializedMessages ==
    {<<"Google Map Tools not initialized">>, <<"Google Maps tools not initialized">>}

\* The request that the last invocation sent to the given provider API.
Sent(api) == {i \in 1..Len(provider_calls) : provider_calls[i].api = api}
TheRequest(api) == provider_calls[CHOOSE i \in Sent(api) : TRUE]

BothTimesSupplied ==
    /\ tool = "maps_directions"
    /\ input.departure_time # None
    /\ input.arrival_time # None

BothTimesNonEmpty ==
    /\ tool = "maps_directions"
    /\ TruthyStr(input.departure_time)
    /\ TruthyStr(input.arrival_time)

\* C1 as stated: with both a departure time and an arrival time supplied,
\* the directions request carries the departure time and no arrival time.
C1_DepartureWins ==
    (BothTimesSupplied /\ Sent("directions") # {}) =>
        /\ "departure_time" \in DOMAIN TheRequest("directions").params
        /\ TheRequest("directions").params.departure_time # None
        /\ "arrival_time" \notin DOMAIN TheRequest("directions").params

\* C1 as amended: with both a non-empty departure time and a non-empty
\* arrival time supplied, the directions request carries the parsed arrival
\* time and no departure time.
C1_ArrivalWins ==
    (BothTimesNonEmpty /\ Sent("directions") # {}) =>
        /\ "arrival_time" \in DOMAIN TheRequest("directions").params
        /\ TheRequest("directions").params.arrival_time
              = ParseTime(input.arrival_time).value
        /\ TheRequest("directions").params.arrival_time # None
        /\ "departure_time" \notin DOMAIN TheRequest("directions").params

C1_Witness ==
    /\ BothTimesNonEmpty
    /\ input.departure_time = Some("2025-01-01T09:00:00")
    /\ input.arrival_time = Some("2025-01-01T18:00:00Z")
    /\ Returned(outcome)
    /\ TheRequest("directions").params.arrival_time
          = Some([date |-> "2025-01-01", hour |-> 18, tzinfo |-> Some(0)])

\* C2: a tool invoked while the adapter handle is unset fails with the
\* RuntimeError "... not initialized" and issues no provider request.
C2_NotInitialized ==
    (tool \in ToolNames /\ maps_tools = NoneTools) =>
        /\ Raised(outcome)
        /\ outcome.exc = "RuntimeError"
        /\ outcome.msg \in NotInitializedMessages
        /\ provider_calls = <<>>

C2_Witness ==
    /\ tool = "maps_elevation"
    /\ maps_tools = NoneTools
    /\ input.locations = <<Point(1)>>
    /\ outcome = Raise("RuntimeError", <<"Google Maps tools not initialized">>)

FailurePrefix(name) ==
    CASE name = "search_nearby" -> "Search failed"
      [] name = "get_place_details" -> "Failed to get place details"
      [] name = "maps_geocode" -> "Geocoding failed"
      [] name = "maps_reverse_geocode" -> "Reverse geocoding failed"
      [] name = "maps_distance_matrix" -> "Distance matrix calculation failed"
      [] name = "maps_directions" -> "Failed to get directions"
      [] name = "maps_elevation" -> "Failed to get elevation data"

\* C3: whatever fails inside a tool, the invocation ends in a RuntimeError
\* whose message is the handler's prefix followed by the failure's message;
\* no other exception class leaves a tool.
C3_UniformFailure ==
    (tool \in ToolNames /\ Raised(outcome)) =>
        /\ outcome.exc = "RuntimeError"
        /\ \/ outcome.msg \in NotInitializedMessages
           \/ /\ Len(outcome.msg) >= 2
              /\ outcome.msg[1] = FailurePrefix(tool)

\* A center without its value: the KeyError of get_location is re-emitted.
C3_Witness ==
    /\ tool = "search_nearby"
    /\ input.center = [isCoordinates |-> TRUE]
    /\ outcome = Raise("RuntimeError", <<"Search failed", "'value'">>)

RatingOrZero(rating) == IF rating = None THEN 0 ELSE rating[1]

\* C4: with a minRating, no returned place is rated below it, a missing
\* rating counting as 0; every provider place rated at or above it is
\* returned, as the provider gave it and in the provider's order.
C4_MinRating ==
    (tool = "search_nearby" /\ Returned(outcome) /\ input.minRating # None) =>
        LET min == input.minRating[1]
            provided == Get(TheRequest("places_nearby").answer.body, "results", <<>>)
            out == outcome.value.places
        IN  /\ \A k \in 1..Len(out) : RatingOrZero(out[k].rating) >= min
            /\ \A i \in 1..Len(provided) :
                  RatingOrZero(OGet(provided[i], "rating")) >= min
                      => \E k \in 1..Len(out) :
                            out[k].place_id = Some(provided[i].place_id)
            /\ \A k \in 1..Len(out) :
                  \E i \in 1..Len(provided) :
                      /\ out[k].place_id = Some(provided[i].place_id)
                      /\ out[k].rating = OGet(provided[i], "rating")
            /\ \A k1, k2 \in 1..Len(out) :
                  k1 < k2 => out[k1].place_id[1] < out[k2].place_id[1]

C4_Witness ==
    /\ tool = "search_nearby"
    /\ input.minRating = Some(2)
    /\ Returned(outcome)
    /\ Get(TheRequest("places_nearby").answer.body, "results", <<>>)
          = <<Place(1, None), Place(2, Some(2))>>
    /\ outcome.value.total_results = 1
    /\ outcome.value.places[1].place_id = Some(2)

\* C5: both arrays of a successful distance matrix have one row per origin
\* and one column per destination in every row.
C5_Dimensions ==
    (tool = "maps_distance_matrix" /\ Returned(outcome)) =>
        /\ Len(outcome.value.distances) = Len(input.origins)
        /\ Len(outcome.value.durations) = Len(input.origins)
        /\ \A i \in 1..Len(input.origins) :
              /\ Len(outcome.value.distances[i]) = Len(input.destinations)
              /\ Len(outcome.value.durations[i]) = Len(input.destinations)

C5_Witness ==
    /\ tool = "maps_distance_matrix"
    /\ Len(input.origins) = 2
    /\ Len(input.destinations) = 2
    /\ Returned(outcome)
    /\ \A i, j \in 1..2 :
          TheRequest("distance_matrix").answer.body.rows[i].elements[j].status # "OK"

\* C6: a distance matrix call fails exactly when the provider gives no
\* top-level status OK; otherwise cell [i][j] of both arrays is null for an
\* element that is not OK and is the element's {value, text} pair for one
\* that is.
C6_CellsDegrade ==
    (tool = "maps_distance_matrix" /\ Sent("distance_matrix") # {}) =>
        LET answer == TheRequest("distance_matrix").answer
        IN  /\ Raised(outcome) <=> (answer.raises \/ answer.body.status # "OK")
            /\ Returned(outcome) =>
                  \A i \in 1..Len(input.origins) :
                     \A j \in 1..Len(input.destinations) :
                        /\ i \in DOMAIN outcome.value.distances
                        /\ i \in DOMAIN outcome.value.durations
                        /\ j \in DOMAIN outcome.value.distances[i]
                        /\ j \in DOMAIN outcome.value.durations[i]
                        /\ LET element == answer.body.rows[i].elements[j]
                               distance == outcome.value.distances[i][j]
                               duration == outcome.value.durations[i][j]
                           IN  IF element.status = "OK"
                               THEN /\ distance # None
                                    /\ duration # None
                                    /\ DOMAIN distance[1] = {"value", "text"}
                                    /\ DOMAIN duration[1] = {"value", "text"}
                                    /\ distance[1].value = element.distance.value
                                    /\ duration[1].value = element.duration.value
                               ELSE distance = None /\ duration = None

C6_Witness ==
    /\ tool = "maps_distance_matrix"
    /\ Len(input.origins) = 1
    /\ Len(input.destinations) = 2
    /\ Returned(outcome)
    /\ outcome.value.distances = <<<<None, Some([value |-> 1002, text |-> "km"])>>>>
    /\ outcome.value.durations = <<<<None, Some([value |-> 62, text |-> "mins"])>>>>

EmptyAnswer(api) ==
    /\ Sent(api) # {}
    /\ ~TheRequest(api).answer.raises
    /\ TheRequest(api).answer.body = <<>>

\* C9: an empty result list fails geocode and reverse-geocode; an empty
\* nearby search succeeds with no places and total_results 0; total_results
\* is always the number of places returned.
C9_EmptyResults ==
    /\ (tool = "maps_geocode" /\ EmptyAnswer("geocode")) => Raised(outcome)
    /\ (tool = "maps_reverse_geocode" /\ EmptyAnswer("reverse_geocode"))
          => Raised(outcome)
    /\ (/\ tool = "search_nearby"
        /\ Sent("places_nearby") # {}
        /\ ~TheRequest("places_nearby").answer.raises
        /\ Get(TheRequest("places_nearby").answer.body, "results", <<>>) = <<>>)
          => /\ Returned(outcome)
             /\ outcome.value.places = <<>>
             /\ outcome.value.total_results = 0
    /\ (tool = "search_nearby" /\ Returned(outcome))
          => outcome.value.total_results = Len(outcome.value.places)

C9_Witness ==
    /\ tool = "search_nearby"
    /\ Returned(outcome)
    /\ TheRequest("places_nearby").answer = ProviderBody([status |-> "ZERO_RESULTS"])
    /\ outcome.value.places = <<>>
    /\ outcome.value.total_results = 0

AdapterOperations ==
    {"geocode_address", "reverse_geocode", "search_nearby_places",
     "get_place_details", "get_directions", "calculate_distance_matrix",
     "get_elevation"}

\* The resolve of the center of the last search_nearby cannot succeed.
ResolveFails ==
    \/ "value" \notin DOMAIN input.center
    \/ /\ Get(input.center, "isCoordinates", FALSE)
       /\ ~TwoNumericTokens(input.center.value)
    \/ /\ ~Get(input.center, "isCoordinates", FALSE)
       /\ \A i \in Sent("geocode") :
             \/ provider_calls[i].answer.raises
             \/ provider_calls[i].answer.body = <<>>

\* C10: an adapter operation issues at most one provider request; a
\* request that the provider fails is the last one of the invocation, which
\* fails; a search_nearby whose center does not resolve issues no
\* nearby-search request.
C10_SingleAttempt ==
    /\ \A op \in AdapterOperations :
          Cardinality({i \in 1..Len(provider_calls) : provider_calls[i].op = op}) <= 1
    /\ \A i \in 1..Len(provider_calls) :
          provider_calls[i].answer.raises =>
              /\ i = Len(provider_calls)
              /\ tool \in ToolNames => Raised(outcome)
    /\ (tool = "search_nearby" /\ maps_tools # NoneTools /\ ResolveFails)
          => Sent("places_nearby") = {}

C10_Witness ==
    /\ tool = "search_nearby"
    /\ Len(provider_calls) = 1
    /\ provider_calls[1].api = "geocode"
    /\ provider_calls[1].answer = ProviderRaise("TransportError")
    /\ outcome = Raise("RuntimeError",
                       <<"Search failed", "Error geocoding address", "TransportError">>)


(***************************************************************************)
(* Startup.                                                                *)
(***************************************************************************)

ProbeFailed == tool = "validate_api_key" /\ outcome = Return(FALSE)

\* C11: without a credential the constructor fails, main ends with that
\* error printed and the server never reaches the serving step, the handle
\* staying unset; with a credential, a failed validation probe (geocode of
\* "Google") only prints a warning: main still reaches the serving step and
\* the handle is set.
C11_Startup ==
    /\ env_key = "" =>
          /\ main_pc \in {"start", "failed"}
          /\ maps_tools = NoneTools
          /\ main_pc = "failed" => stdout = <<"Server error">>
    /\ ProbeFailed =>
          /\ env_key # ""
          /\ main_pc = "serving"
          /\ maps_tools = GoogleMapsTools_init(env_key).value
          /\ stdout = <<"Warning", "Starting MCP Google Maps Server...">>
          /\ Len(provider_calls) = 1
          /\ provider_calls[1].params.address = "Google"
    /\ main_pc = "serving" => maps_tools # NoneTools

C11_Witness ==
    /\ ProbeFailed
    /\ main_pc = "serving"
    /\ provider_calls[1].answer.raises


(***************************************************************************)
(* Elevation.                                                              *)
(***************************************************************************)

ElevationReturned == tool = "maps_elevation" /\ Returned(outcome)

\* C12: a successful elevation call hands back exactly one sample per
\* requested point, and the k-th sample is the one of the k-th requested
\* point: its location is that point and its elevation is the k-th elevation
\* of the provider's answer to the one request, which lists the points in
\* the order of the input.
C12_SamplesInOrder ==
    ElevationReturned =>
        LET points == input.locations
            samples == outcome.value
            request == provider_calls[1]
        IN  /\ Len(provider_calls) = 1
            /\ Len(request.params.locations) = Len(points)
            /\ Len(samples) = Len(points)
            /\ \A k \in 1..Len(points) :
                  /\ request.params.locations[k]
                        = <<points[k].latitude, points[k].longitude>>
                  /\ DOMAIN samples[k] = {"elevation", "location"}
                  /\ samples[k].location
                        = [lat |-> points[k].latitude, lng |-> points[k].longitude]
                  /\ samples[k].elevation = request.answer.body[k].elevation

C12_Witness ==
    /\ ElevationReturned
    /\ Len(input.locations) = MaxPoints
    /\ input.locations[1] # input.locations[MaxPoints]
    /\ outcome.value[1].location.lat = input.locations[1].latitude


(***************************************************************************)
(* Directions.                                                             *)
(***************************************************************************)

DirectionsAnswered ==
    /\ tool = "maps_directions"
    /\ Sent("directions") # {}
    /\ ~TheRequest("directions").answer.raises

DirectionsReturned == tool = "maps_directions" /\ Returned(outcome)

NoRouteFailure ==
    outcome = Raise("RuntimeError", <<"Failed to get directions",
                                      "Error getting directions", "No route found">>)

\* The summary is the first route's and the totals are its first leg's.
FromFirstRouteFirstLeg ==
    LET routes == TheRequest("directions").answer.body
        leg == routes[1].legs[1]
    IN  /\ outcome.value.summary = Get(routes[1], "summary", "")
        /\ outcome.value.total_distance
              = [value |-> leg.distance.value, text |-> leg.distance.text]
        /\ outcome.value.total_duration
              = [value |-> leg.duration.value, text |-> leg.duration.text]

\* A route beside the first, or a leg beside the first, in the output.
AlternativeInOutput ==
    \/ Len(outcome.value.routes) > 1
    \/ \E i \in 1..Len(outcome.value.routes) : Len(outcome.value.routes[i].legs) > 1

\* The statement of C13 as the specification has it: an empty result is the
\* no-route failure, and a RouteResult is built from the first route and its
\* first leg only, with no alternative route or further leg in the output.
C13_Truncated ==
    /\ (DirectionsAnswered /\ TheRequest("directions").answer.body = <<>>)
          => NoRouteFailure
    /\ DirectionsReturned => (FromFirstRouteFirstLeg /\ ~AlternativeInOutput)

\* C13: an empty provider result makes the directions call fail with the
\* no-route failure; otherwise the summary is the first route's and the total
\* distance and duration are its first leg's, while the routes field is the
\* provider's whole list, every route and every leg of it, untruncated.
C13_FirstRouteFirstLeg ==
    /\ (DirectionsAnswered /\ TheRequest("directions").answer.body = <<>>)
          => NoRouteFailure
    /\ DirectionsReturned =>
          /\ DirectionsAnswered
          /\ TheRequest("directions").answer.body # <<>>
          /\ FromFirstRouteFirstLeg
          /\ outcome.value.routes = TheRequest("directions").answer.body

C13_Witness ==
    /\ DirectionsReturned
    /\ Len(outcome.value.routes) = MaxRoutes
    /\ Len(outcome.value.routes[1].legs) = MaxLegs
    /\ outcome.value.summary = "1"
    /\ outcome.value.total_distance.value = 1001


(***************************************************************************)
(* The location handed back by get_location and echoed by search_nearby.   *)
(***************************************************************************)

\* get_location called directly and through search_nearby, on a constructed
\* adapter.
NextLocation == ResolveCoordinates \/ ResolveAddress \/ CallSearchNearby \/ Finish

SpecLocation == InitResolve /\ [][NextLocation]_vars

LocationReturned == tool \in {"get_location", "search_nearby"} /\ Returned(outcome)

TheDescriptor == IF tool = "get_location" THEN input ELSE input.center

TheLocation == IF tool = "get_location" THEN outcome.value ELSE outcome.value.location

Populated(d, key) == key \in DOMAIN d /\ d[key] # None

\* The statement of C14 as the specification has it: the location holds
\* exactly the two fields lat and lng, both populated, whichever kind the
\* descriptor is.
C14_ExactlyLatLng ==
    LocationReturned =>
        /\ DOMAIN TheLocation = {"lat", "lng"}
        /\ Populated(TheLocation, "lat")
        /\ Populated(TheLocation, "lng")

\* C14: the location returned by get_location, and echoed as the location
\* field of the search_nearby response, always holds lat and lng, both
\* populated; for a literal coordinate pair it holds exactly these two
\* fields, and for a geocoded free-text address it holds formatted_address
\* and place_id as well, lat and lng being those of the provider's first
\* result.
C14_LocationFields ==
    LocationReturned =>
        /\ Populated(TheLocation, "lat")
        /\ Populated(TheLocation, "lng")
        /\ IF Get(TheDescriptor, "isCoordinates", FALSE)
           THEN /\ DOMAIN TheLocation = {"lat", "lng"}
                /\ Sent("geocode") = {}
           ELSE /\ DOMAIN TheLocation
                     = {"lat", "lng", "formatted_address", "place_id"}
                /\ Sent("geocode") # {}
                /\ LET first == TheRequest("geocode").answer.body[1]
                   IN  /\ TheLocation.lat = first.geometry.location.lat
                       /\ TheLocation.lng = first.geometry.location.lng

C14_Witness ==
    /\ tool = "search_nearby"
    /\ Returned(outcome)
    /\ ~Get(input.center, "isCoordinates", FALSE)
    /\ Populated(outcome.value.location, "lat")
    /\ "place_id" \in DOMAIN outcome.value.location


(***************************************************************************)
(* Invocations side by side.                                               *)
(***************************************************************************)

\* What the invocation of worker w comes to when it runs alone on the
\* adapter that main constructed, with the same input and the same answers.
Alone(w) ==
    RunTool(GoogleMapsTools_init(env_key).value, inflight[w].job, inflight[w].answers)

EachOnItsOwn ==
    \A w \in Workers : inflight[w].pc = "done" => inflight[w].done = Alone(w)

\* The only write of the handle is main's, before serving, from unset to the
\* adapter the constructor makes for the credential of the environment.
WrittenOnceByMain ==
    maps_tools' # maps_tools =>
        /\ maps_tools = NoneTools
        /\ main_pc = "start"
        /\ \A w \in Workers : inflight[w].pc = "idle"
        /\ maps_tools' = [cls |-> "GoogleMapsTools", api_key |-> env_key,
                          default_language |-> DefaultLanguage]

\* C15: under any interleaving of tool invocations and status reads after
\* startup, the adapter handle, its credential and its default language are
\* never written (the one assignment is main's, before serving), and what an
\* invocation returns or raises, and the requests it sends, are those it
\* gives when run alone on its own input and the provider's answers to its
\* own requests.
C15_Independent ==
    /\ []EachOnItsOwn
    /\ [][WrittenOnceByMain]_vars

C15_Witness ==
    /\ inflight[1].pc = "located"
    /\ inflight[2].pc = "done"
    /\ inflight[2].job = inflight[1].job
    /\ Raised(inflight[2].done.result)
    /\ Len(inflight[2].done.calls) = 1
    /\ maps_tools.default_language = DefaultLanguage

====
